---- MODULE Spec2Model ----
(***************************************************************************)
(* The real-time detection pipeline of src/detection_service.py: startup   *)
(* (broker connection, model load), the consumer loop of main(), the steps *)
(* of process_transaction(), the signal handler and the cleanup in         *)
(* main()'s finally clause, together with the scorer of                    *)
(* src/detection_logic.py and the notifier of src/notification_service.py. *)
(*                                                                         *)
(* Scores are percentages (0.7 is 70); amounts are whole currency units.   *)
(***************************************************************************)
EXTENDS Integers, Sequences, FiniteSets, TLC

\* ------------------------------------------------------------------ bounds
\* Number of messages the producer publishes to the topic.
MaxMsgs == 2
\* Writes committed to the transactions table while the API is observed.
MaxWrites == 2
\* Seconds of cache lifetime observed.
MaxClock == 60

\* ------------------------------------------------------- program constants
HIGH_VALUE_THRESHOLD == 5000
HIGH_RISK_THRESHOLD == 80
CRITICAL_RISK_THRESHOLD == 90
WARNING_RISK_THRESHOLD == 60
ML_RISK_THRESHOLD == 70
DEVIATION_THRESHOLD == 5
MIN_HISTORY_COUNT == 5
CONNECT_ATTEMPTS == 5
LOAD_ATTEMPTS == 5
SUSPICIOUS_MERCHANT == "Gambling"
STANDARD_LOCATION == "Helsinki"

\* Python's None, an absent dictionary key, and JSON null in a message.
NoneVal == "<None>"
MISSING == "<missing>"
NULL == "<null>"

\* ------------------------------------------------------------ message data
\* An amount as json.loads delivers it: a number, NaN (json.loads accepts the
\* literal NaN), a string that is no number, null, or no key at all.
Num(v) == [k |-> "num", v |-> v]
NaN == [k |-> "nan", v |-> 0]
BadStr == [k |-> "str", v |-> 0]
NullAmount == [k |-> "null", v |-> 0]
NoAmount == [k |-> "missing", v |-> 0]

Msg(id, acct, amt, cat, loc, ts, fraud) ==
    [transaction_id |-> id, account_id |-> acct, amount |-> amt,
     merchant_category |-> cat, location |-> loc, timestamp |-> ts,
     is_fraud |-> fraud]

GoodTs == "2024-01-15 10:30:00"
BadTs == "not-a-date"

\* The messages a producer may publish, by name.
Payload ==
    [normal    |-> Msg("T1", "A1", Num(50), "Groceries", "Helsinki", GoodTs, "0"),
     high      |-> Msg("T2", "A1", Num(9500), "Gambling", "Turku", GoodTs, "0"),
     noamount  |-> Msg("T3", "A1", NoAmount, "Groceries", "Helsinki", GoodTs, "0"),
     nullloc   |-> Msg("T4", "A2", Num(50), "Groceries", NULL, GoodTs, "0"),
     zero      |-> Msg("T5", "A2", Num(0), "Groceries", "Helsinki", GoodTs, "0"),
     nan       |-> Msg("T6", "A2", NaN, "Groceries", "Helsinki", GoodTs, "0"),
     badamount |-> Msg("T7", "A2", BadStr, "Groceries", "Helsinki", GoodTs, "0"),
     badts     |-> Msg("T8", "A2", Num(50), "Groceries", "Helsinki", BadTs, "0"),
     nofraud   |-> Msg("T9", "A2", Num(50), "Groceries", "Helsinki", GoodTs, MISSING)]

PayloadNames == DOMAIN Payload

\* The messages the producer of the pipeline's topic publishes.
Published == {"normal", "high", "noamount", "nan", "nofraud", "badts"}

\* --------------------------------------------------------------- validation
REQUIRED_FIELDS ==
    <<"transaction_id", "account_id", "amount", "merchant_category",
      "location", "timestamp">>

\* `field not in transaction or transaction[field] is None`
FieldAbsent(t, f) ==
    IF f = "amount" THEN t.amount.k \in {"missing", "null"}
    ELSE t[f] \in {MISSING, NULL}

\* float(transaction['amount']): raises ValueError or TypeError for a value
\* that is no number; NaN converts to NaN.
FloatRaises(a) == a.k \in {"str", "null", "missing"}

\* `amount <= 0` on the converted value: every comparison with NaN is False.
LeZero(a) == a.k = "num" /\ a.v <= 0

\* validate_transaction(transaction) -> is_valid
validate_transaction(t) ==
    /\ \A i \in 1..Len(REQUIRED_FIELDS) : ~FieldAbsent(t, REQUIRED_FIELDS[i])
    /\ ~FloatRaises(t.amount)
    /\ ~LeZero(t.amount)

\* ------------------------------------------------------------------ storage
\* What to_sql writes for an amount: pandas stores NaN as SQL NULL.
StoredAmount(a) == IF a.k = "nan" THEN NullAmount ELSE a

\* A row of the transactions table; transaction_id is its primary key.
Row(t, score, reason, flag, status) ==
    [transaction_id |-> t.transaction_id, account_id |-> t.account_id,
     amount |-> StoredAmount(t.amount), ml_anomaly_score |-> score,
     alert_reason |-> reason, is_anomaly |-> flag, status |-> status]

Ids(rs) == {r.transaction_id : r \in rs}

RECURSIVE SumAmount(_)
SumAmount(rs) ==
    IF rs = {} THEN 0
    ELSE LET r == CHOOSE x \in rs : TRUE
         IN (IF r.amount.k = "num" THEN r.amount.v ELSE 0) + SumAmount(rs \ {r})

\* get_account_aggregates: COUNT(*) and AVG(amount) over the account's rows
\* the connection sees.  COUNT(*) counts every row, AVG skips NULL amounts;
\* the average is kept as the exact fraction avg_num/avg_den.  When the
\* account has rows and every amount is NULL, AVG is NULL and float(None)
\* raises TypeError.
get_account_aggregates(acct, visible) ==
    LET rs == {r \in visible : r.account_id = acct}
        nums == {r \in rs : r.amount.k = "num"}
    IN IF Cardinality(rs) > 0
       THEN [raises |-> nums = {}, account_tx_count |-> Cardinality(rs),
             avg_num |-> SumAmount(nums),
             avg_den |-> IF nums = {} THEN 1 ELSE Cardinality(nums)]
       ELSE [raises |-> FALSE, account_tx_count |-> 0, avg_num |-> 0,
             avg_den |-> 1]

\* ------------------------------------------------------------------- scorer
\* Score bounds of the loaded model's training run (percent of a unit).
MODEL_MIN_SCORE == -50
MODEL_MAX_SCORE == 50

\* Decision scores the model may return, with their scaled scores:
\* 40 -> 10 (no ML risk), -25 -> 75 (ML risk, severity WARNING).
RawScores == {40, -25}

\* A deviation computed whatever the average.
AvgAlways(agg) == TRUE

\* `account_avg > 0`
AvgPositive(agg) == agg.avg_num > 0

\* deviation = (tx_amount - account_avg) / (account_avg + 1e-6)
\*             if account_avg > 0 else 0
\* With avg = S/n the quotient is kept as num/den = (a*n - S) / S, and `eps`
\* says that the real denominator is a little larger (the 1e-6); the else
\* branch gives 0/1.  A NaN amount gives a NaN quotient.
Deviation(a, agg) ==
    IF ~AvgPositive(agg) THEN [nan |-> FALSE, num |-> 0, den |-> 1, eps |-> FALSE]
    ELSE IF a.k # "num" THEN [nan |-> TRUE, num |-> 0, den |-> 1, eps |-> TRUE]
    ELSE [nan |-> FALSE, num |-> a.v * agg.avg_den - agg.avg_num,
          den |-> agg.avg_num, eps |-> TRUE]

\* `deviation >= k`.  With the epsilon the test reads
\* (a*n - S) * 10^6 >= k * (S * 10^6 + n), which for k*n < 10^6 holds exactly
\* when a*n - S > k*S: the boundary case a*n - S = k*S fails.  Every
\* comparison with NaN is False.
DeviationAtLeast(d, k) ==
    /\ ~d.nan
    /\ IF d.eps THEN d.num > k * d.den ELSE d.num >= k * d.den

HighDeviation(a, agg) ==
    DeviationAtLeast(Deviation(a, agg), DEVIATION_THRESHOLD)

\* A score bound as load_mlflow_model leaves it: a number, or None.
Bound(v) == [some |-> TRUE, v |-> v]
NoBound == [some |-> FALSE, v |-> 0]

\* A scaling that keeps the direction of the decision score.
ScaledScoreUnflipped(raw, minS, maxS) == (100 * (raw - minS)) \div (maxS - minS)

\* scaled_score = 1 - (raw_score - min_score) / (max_score - min_score)
ScaledScore(raw, minS, maxS) == 100 - (100 * (raw - minS)) \div (maxS - minS)

\* A high-value rule that misses the threshold itself.
HighValueRuleStrict(t) == t.amount.k = "num" /\ t.amount.v > HIGH_VALUE_THRESHOLD

\* `tx_amount >= HIGH_VALUE_THRESHOLD`
HighValueRule(t) == t.amount.k = "num" /\ t.amount.v >= HIGH_VALUE_THRESHOLD

\* A combination rule that looks at the merchant in the standard location only.
SuspiciousComboRuleAtHome(t) ==
    t.merchant_category = SUSPICIOUS_MERCHANT /\ t.location = STANDARD_LOCATION

\* `merchant_category == SUSPICIOUS_MERCHANT and location != STANDARD_LOCATION`
SuspiciousComboRule(t) ==
    t.merchant_category = SUSPICIOUS_MERCHANT /\ t.location # STANDARD_LOCATION

\* A deviation rule that never fires.
HighDeviationRuleOff(t, agg) == FALSE

\* A deviation rule that does not ask how much history the account has.
HighDeviationRuleAnyHistory(t, agg) == HighDeviation(t.amount, agg)

\* `deviation >= 5.0 and aggregates['account_tx_count'] > 5`
HighDeviationRule(t, agg) ==
    HighDeviation(t.amount, agg) /\ agg.account_tx_count > MIN_HISTORY_COUNT

\* `scaled_score >= 0.7`
MLRiskRule(scaled) == scaled >= ML_RISK_THRESHOLD

\* The reasons list of score_transaction, in the order the rules append.
Reasons(t, agg, scaled) ==
    (IF HighValueRule(t) THEN <<"High Value">> ELSE <<>>)
    \o (IF SuspiciousComboRule(t) THEN <<"Suspicious Combo">> ELSE <<>>)
    \o (IF HighDeviationRule(t, agg) THEN <<"High Deviation">> ELSE <<>>)
    \o (IF MLRiskRule(scaled) THEN <<"ML Risk">> ELSE <<>>)

\* " & ".join(reasons) for the lists the two remaining rules can leave.
Join(seq) ==
    IF Len(seq) = 0 THEN ""
    ELSE IF Len(seq) = 1 THEN seq[1]
    ELSE "High Value & Suspicious Combo"

Contains(seq, x) == \E i \in 1..Len(seq) : seq[i] = x

\* A resolution that puts the deviation rule before the ML rule.
AlertReasonDeviationFirst(reasons) ==
    IF Len(reasons) = 0 THEN NoneVal
    ELSE IF Contains(reasons, "High Deviation") THEN "High Deviation from Avg"
    ELSE IF Contains(reasons, "ML Risk") THEN "ML Anomaly"
    ELSE Join(reasons)

\* alert_reason: None for an empty list, else by priority.
AlertReason(reasons) ==
    IF Len(reasons) = 0 THEN NoneVal
    ELSE IF Contains(reasons, "ML Risk") THEN "ML Anomaly"
    ELSE IF Contains(reasons, "High Deviation") THEN "High Deviation from Avg"
    ELSE Join(reasons)

\* A guard that looks at the model only.
NotProvidedModelOnly(model, minS, maxS) == ~model

\* `not model or min_score is None or max_score is None`
NotProvided(model, minS, maxS) == ~model \/ ~minS.some \/ ~maxS.some

\* score_transaction(transaction, aggregates, model, min_score, max_score).
\* `decision` is what model.decision_function does on the feature row: it
\* returns a raw score or raises.  The result says whether the call raised,
\* and what; a call that raised returns neither score nor reason.
score_transaction(t, agg, model, minS, maxS, decision) ==
    IF NotProvided(model, minS, maxS)
    THEN [raised |-> TRUE, error |-> "RuntimeError", score |-> 0,
          reason |-> NoneVal]
    ELSE IF decision.raises
    THEN [raised |-> TRUE, error |-> "ModelError", score |-> 0,
          reason |-> NoneVal]
    ELSE LET scaled == ScaledScore(decision.raw, minS.v, maxS.v)
         IN [raised |-> FALSE, error |-> NoneVal, score |-> scaled,
             reason |-> AlertReason(Reasons(t, agg, scaled))]

\* What the model may do on a feature row.
Decisions == {[raises |-> TRUE, raw |-> 0]}
             \cup {[raises |-> FALSE, raw |-> r] : r \in RawScores}

\* ----------------------------------------------------------------- notifier
\* NotificationChannel: every channel the notifier knows.
Channels == {"slack", "discord", "teams", "email", "webhook"}

\* _detect_enabled_channels for the environment the pipeline runs in: one
\* webhook URL is configured.
EnabledChannels == {"slack"}

\* A severity that looks at the score only.
determine_severity_by_score(score, amount) ==
    IF score >= CRITICAL_RISK_THRESHOLD THEN "CRITICAL"
    ELSE IF score >= HIGH_RISK_THRESHOLD THEN "HIGH"
    ELSE IF score >= WARNING_RISK_THRESHOLD THEN "WARNING"
    ELSE "INFO"

\* NotificationService.determine_severity(anomaly_score, amount)
determine_severity(score, amount) ==
    IF score >= CRITICAL_RISK_THRESHOLD THEN "CRITICAL"
    ELSE IF score >= HIGH_RISK_THRESHOLD
            \/ (amount.k = "num" /\ amount.v >= HIGH_VALUE_THRESHOLD) THEN "HIGH"
    ELSE IF score >= WARNING_RISK_THRESHOLD THEN "WARNING"
    ELSE "INFO"

\* What one send_fraud_alert call may meet: it raises, or every channel it
\* tries ends delivered (TRUE) or failed after its retries (FALSE).
NotifyOutcomes(enabled) ==
    {[raises |-> TRUE, sent |-> [c \in enabled |-> FALSE]]}
    \cup {[raises |-> FALSE, sent |-> f] : f \in [enabled -> BOOLEAN]}

\* A gate that lets only CRITICAL alerts out.
SuppressedBelowCritical(severity) == severity # "CRITICAL"

\* send_fraud_alert's gate: only HIGH and CRITICAL alerts are sent.
Suppressed(severity) == severity \notin {"HIGH", "CRITICAL"}

\* NotificationService.send_fraud_alert: the result map, channel -> success,
\* over the enabled channels.  Nothing is attempted below HIGH severity and
\* the map is empty.
send_fraud_alert(t, score, enabled, outcome) ==
    IF Suppressed(determine_severity(score, t.amount))
    THEN [c \in {} |-> FALSE]
    ELSE [c \in enabled |-> outcome.sent[c]]

\* The channels of a result map that received the alert.
Delivered(results) == {c \in DOMAIN results : results[c]}

\* stop_after_attempt(3) of the retry decorator.
SEND_ATTEMPTS == 3

\* The senders that carry the retry decorator: _send_slack_notification,
\* _send_discord_notification, _send_teams_notification and
\* _send_custom_webhook.  _send_email_notification carries none.
RetriedChannels == {"slack", "discord", "teams", "webhook"}

\* The order in which _detect_enabled_channels lists the channels, which is
\* the order send_fraud_alert walks them in.
ChannelOrder == <<"slack", "discord", "teams", "email", "webhook">>

ChannelIndex(c) == CHOOSE i \in 1..Len(ChannelOrder) : ChannelOrder[i] = c

\* One channel's sender, given the attempt on which its transport first
\* succeeds (SEND_ATTEMPTS + 1: not within the ceiling).  A retried sender
\* re-raises each failure, is called again up to SEND_ATTEMPTS times and
\* then raises RetryError; the email sender is called once, swallows its
\* failure and returns False.  The decorator is given no `retry=` predicate
\* and the sender re-raises whatever it caught, so what kind of failure it
\* was makes no difference to the number of attempts.
ChannelSend(c, firstOk) ==
    IF c \in RetriedChannels
    THEN [attempts |-> IF firstOk <= SEND_ATTEMPTS THEN firstOk
                       ELSE SEND_ATTEMPTS,
          ok |-> firstOk <= SEND_ATTEMPTS,
          raises |-> firstOk > SEND_ATTEMPTS]
    ELSE [attempts |-> 1, ok |-> firstOk = 1, raises |-> FALSE]

\* A channel loop without the except clause.
ChannelUncaught == FALSE

\* send_fraud_alert wraps each channel in try/except Exception and records
\* False for a channel whose sender raised.
ChannelCaught == TRUE

\* One whole send_fraud_alert call: the result map, the number of sender
\* attempts per enabled channel, and whether the call raised.  A sender's
\* exception that the loop does not catch ends the call before the channels
\* after it.
FraudAlertCall(t, score, enabled, firstOk) ==
    LET sends == [c \in enabled |-> ChannelSend(c, firstOk[c])]
        escapes(c) == sends[c].raises /\ ~ChannelCaught
        cut(c) == \E d \in enabled :
                     ChannelIndex(d) < ChannelIndex(c) /\ escapes(d)
        quiet == Suppressed(determine_severity(score, t.amount))
        outcome == [raises |-> \E c \in enabled : escapes(c),
                    sent |-> [c \in enabled |-> sends[c].ok]]
    IN [raised |-> ~quiet /\ outcome.raises,
        results |-> send_fraud_alert(t, score, enabled, outcome),
        attempts |-> [c \in enabled |->
                         IF quiet \/ cut(c) THEN 0 ELSE sends[c].attempts]]

\* ------------------------------------------------------------ cache wrapper
\* CACHE_TTL_ANOMALIES and CACHE_TTL_SHORT, in seconds.
CACHE_TTL_ANOMALIES == 60
CACHE_TTL_SHORT == 30

\* Python values handed to the cache.  Listing(n) is the dict
\* {"data": data, "count": len(data)} that get_anomalies builds from the
\* table as it stands after n committed writes; a list, a tuple and an
\* object json cannot serialise (a datetime, a set) stand for the rest.
Listing(n) == [py |-> "dict", n |-> n]
PyList(n) == [py |-> "list", n |-> n]
PyTuple(n) == [py |-> "tuple", n |-> n]
PyObject == [py |-> "object", n |-> 0]
\* None, the miss.
Miss == [py |-> "None", n |-> 0]
\* The HTTPException(500) of a failed query.
Http500 == [py |-> "HTTPException", n |-> 500]

\* json.dumps(value): a dict becomes an object, a list and a tuple both
\* become an array, anything else raises TypeError.
json_dumps(v) ==
    IF v.py = "dict" THEN [raises |-> FALSE, text |-> <<"{", v.n>>]
    ELSE IF v.py \in {"list", "tuple"}
         THEN [raises |-> FALSE, text |-> <<"[", v.n>>]
    ELSE [raises |-> TRUE, text |-> <<>>]

\* json.loads(text): an object becomes a dict, an array a list, any other
\* text raises JSONDecodeError.
json_loads(text) ==
    IF text[1] = "{" THEN [raises |-> FALSE, value |-> Listing(text[2])]
    ELSE IF text[1] = "[" THEN [raises |-> FALSE, value |-> PyList(text[2])]
    ELSE [raises |-> TRUE, value |-> Miss]

\* A stored text that is not JSON.
Garbage == <<"?", 0>>

\* The ttl argument of set: None, or a number of seconds.
NoTtl == [given |-> FALSE, s |-> 0]
Ttl(s) == [given |-> TRUE, s |-> s]

\* One slot of the Redis keyspace.  `at` is history: the number of writes
\* committed to the table when the entry was stored.
Absent == [present |-> FALSE, text |-> <<>>, expires |-> FALSE, expiry |-> 0,
           at |-> 0]

\* Keys as cache_key builds them: endpoint, ':' and the digest of the
\* parameters.
CacheKeys == {<<"anomalies", ":", "d1">>, <<"anomalies", ":", "d2">>,
              <<"stats", ":", "d1">>}

\* Redis glob match of a pattern that ends in '*'.
Matches(pattern, k) ==
    /\ Len(k) >= Len(pattern) - 1
    /\ \A i \in 1..(Len(pattern) - 1) : k[i] = pattern[i]

\* A wrapper that believes the store is always there.
is_available_always(up) == TRUE

\* CacheService.is_available: the client exists and answers the ping.
is_available(up) == up

\* A delete that removes nothing.
delete_nothing(st, up, k) == [ok |-> FALSE, store |-> st]

\* CacheService.delete(key): False when the store is unavailable or the
\* command fails, else whether a key was removed.
delete(st, up, k) ==
    IF ~is_available(up) THEN [ok |-> FALSE, store |-> st]
    ELSE [ok |-> st[k].present, store |-> [st EXCEPT ![k] = Absent]]

\* CacheService.get(key): None when the store is unavailable, the key is
\* absent or the command fails; the deserialised value otherwise.  A value
\* that does not deserialise is deleted (by a second command, which meets
\* the store as `delUp` says) and None is returned.
get(st, up, delUp, k) ==
    IF ~is_available(up) \/ ~st[k].present
    THEN [value |-> Miss, store |-> st]
    ELSE LET d == json_loads(st[k].text)
         IN IF d.raises
            THEN [value |-> Miss, store |-> delete(st, delUp, k).store]
            ELSE [value |-> d.value, store |-> st]

\* A set that stores every entry without expiry.
set_without_expiry(st, up, k, v, ttl, t, stamp) ==
    IF ~up \/ json_dumps(v).raises THEN [ok |-> FALSE, store |-> st]
    ELSE [ok |-> TRUE,
          store |-> [st EXCEPT ![k] =
                        [present |-> TRUE, text |-> json_dumps(v).text,
                         expires |-> FALSE, expiry |-> 0, at |-> stamp]]]

\* CacheService.set(key, value, ttl) at time t: False when the store is
\* unavailable, the value does not serialise, or the command fails (SETEX
\* rejects an expire time that is not positive); else SETEX with the ttl,
\* or SET without expiry when ttl is None.
set(st, up, k, v, ttl, t, stamp) ==
    LET d == json_dumps(v)
    IN IF ~is_available(up) \/ d.raises \/ (ttl.given /\ ttl.s <= 0)
       THEN [ok |-> FALSE, store |-> st]
       ELSE [ok |-> TRUE,
             store |-> [st EXCEPT ![k] =
                           [present |-> TRUE, text |-> d.text,
                            expires |-> ttl.given, expiry |-> t + ttl.s,
                            at |-> stamp]]]

\* CacheService.invalidate_pattern(pattern): 0 when the store is
\* unavailable or a command fails, else KEYS pattern, DEL of what it
\* found, and the number of keys deleted.
invalidate_pattern(st, up, pattern) ==
    IF ~is_available(up) THEN [count |-> 0, store |-> st]
    ELSE LET ks == {k \in DOMAIN st : st[k].present /\ Matches(pattern, k)}
         IN [count |-> Cardinality(ks),
             store |-> [k \in DOMAIN st |->
                           IF k \in ks THEN Absent ELSE st[k]]]

\* invalidate_anomalies_cache()
invalidate_anomalies_cache(st, up) ==
    invalidate_pattern(st, up, <<"anomalies", ":", "*">>)

\* The parameter names in the order Python's sorted() puts them.
ParamOrder == <<"limit", "offset", "status">>
ParamRank(name) == CHOOSE i \in 1..Len(ParamOrder) : ParamOrder[i] = name

\* The keyword arguments in the order the caller wrote them.
params_as_given(params) == params

\* sorted(params.items()): the (name, value) pairs by name.
sorted_params(params) ==
    [i \in 1..Len(params) |->
        CHOOSE p \in {params[j] : j \in 1..Len(params)} :
            Cardinality({q \in {params[j] : j \in 1..Len(params)} :
                            ParamRank(q[1]) < ParamRank(p[1])}) = i - 1]

\* hashlib.md5(text).hexdigest(): one digest per text.
md5(text) == [md5 |-> text]

\* cache_key(endpoint, **params): the endpoint, ':' and the digest of the
\* JSON array of the sorted pairs.
cache_key(endpoint, params) ==
    <<endpoint, ":", md5(<<"[", sorted_params(params)>>)>>

\* The keyspace at time t: Redis drops an entry when its expiry is reached.
Expire(st, t) ==
    [k \in DOMAIN st |->
        IF st[k].present /\ st[k].expires /\ st[k].expiry <= t
        THEN Absent ELSE st[k]]

\* -------------------------------------------------------------------- state
VARIABLES
    pc,             \* where main() stands
    shutdown_flag,  \* the global set by signal_handler
    attempt,        \* attempt number of the running retry loop
    consumer,       \* "none" | "open" | "closed"
    engine,         \* "none" | "open" | "disposed"
    model_loaded,   \* LOADED_MODEL is not None
    bounds_loaded,  \* MODEL_MIN_SCORE and MODEL_MAX_SCORE are not None
    sys_exit,       \* code of the SystemExit in flight, -1 when none
    exit_status,    \* exit status of the process, -1 while it runs
    log,            \* the topic: payload names in offset order
    position,       \* messages the iterator has yielded so far
    committed,      \* messages acknowledged to the broker (committed offset)
    rows,           \* committed rows of the transactions table
    pending,        \* rows written in the connection's open transaction
    msg,            \* payload name of the message in hand, "none" outside
    tx,             \* detection results put on the message in hand
    processed,      \* TRANSACTIONS_PROCESSED
    anomalies,      \* ANOMALIES_DETECTED
    errors,         \* TRANSACTION_PROCESSING_ERRORS
    alerts,         \* <<transaction_id, channel>> of every alert delivered
    attempted,      \* history: offsets process_transaction was invoked on
    failedPersist,  \* history: offsets whose insert failed, id not stored
    late,           \* history: process_transaction calls begun with flag set
    cur,            \* history: what happened to the message in hand
    fatalCause,     \* history: what raised into main()'s except clause
    fn,             \* the function called on its own, "none" in the pipeline
    arg,            \* the arguments of that call
    ret,            \* what the call returned or raised, NoRet before
    store,          \* the Redis keyspace: key -> entry
    redis_up,       \* the Redis server answers
    now,            \* seconds since the cache service started
    db,             \* writes committed to the transactions table so far
    rd,             \* each get_anomalies request: where it stands
    wr,             \* the update_anomaly_status request: where it stands
    settled,        \* history: writes covered by the last invalidation
    finished,       \* history: writes whose handler has returned
    lastOp          \* the last operation on the keyspace, its result

progVars == <<pc, shutdown_flag, attempt, consumer, engine, model_loaded,
              bounds_loaded, sys_exit, exit_status, log, position, committed,
              rows, pending, msg, tx, processed, anomalies, errors, alerts,
              attempted, failedPersist, late, cur, fatalCause>>

callVars == <<fn, arg, ret>>

cacheVars == <<store, redis_up, now>>
apiVars == <<db, rd, wr, settled, finished>>
clientVars == <<lastOp>>
webVars == <<cacheVars, apiVars, clientVars>>

vars == <<progVars, callVars, webVars>>

procVars == <<attempt, consumer, engine, model_loaded, bounds_loaded,
              sys_exit, exit_status>>
brokerVars == <<log, position, committed>>
dbVars == <<rows, pending>>
metricVars == <<processed, anomalies, errors>>

NoTx == [score |-> 0, reason |-> NoneVal, is_anomaly |-> 0, status |-> NoneVal]

NoCur ==
    [entered |-> FALSE, errs |-> 0, enriched |-> FALSE, scored |-> FALSE, fellback |-> FALSE,
     notified |-> FALSE, notifyFailed |-> FALSE, insertTried |-> 0,
     insertFailed |-> FALSE, inserted |-> FALSE, committed |-> FALSE,
     renotified |-> FALSE]

\* The module's globals and main()'s locals before main() runs.
ProgramInit ==
    /\ pc = "connect"
    /\ shutdown_flag = FALSE
    /\ attempt = 1
    /\ consumer = "none"
    /\ engine = "none"
    /\ model_loaded = FALSE
    /\ bounds_loaded = FALSE
    /\ sys_exit = -1
    /\ exit_status = -1
    /\ log = <<>>
    /\ position = 0
    /\ committed = 0
    /\ rows = {}
    /\ pending = {}
    /\ msg = "none"
    /\ tx = NoTx
    /\ processed = 0
    /\ anomalies = 0
    /\ errors = 0
    /\ alerts = {}
    /\ attempted = {}
    /\ failedPersist = {}
    /\ late = 0
    /\ cur = NoCur
    /\ fatalCause = "none"

NoArg == [none |-> TRUE]
NoRet == [done |-> FALSE]

\* The keys of the anomalies listing.
AnomalyKeys == {k \in CacheKeys : k[1] = "anomalies"}

\* The get_anomalies requests in flight at once.
Readers == {"r1", "r2"}

\* A request slot before get_anomalies is entered.  `stale` and `old` are
\* history, taken when the request is served from the cache: the value was
\* computed from data older than the last invalidated update; the entry
\* was stored before a write whose handler has returned.
IdleRequest == [pc |-> "idle", key |-> <<"anomalies", ":", "d1">>,
                value |-> Miss, hit |-> FALSE, stale |-> FALSE, old |-> FALSE]

IdleUpdate == [pc |-> "idle", ver |-> 0]

\* No set call precedes.
NotWritten == [called |-> FALSE, v |-> Miss, ttl |-> NoTtl, time |-> 0,
               up |-> FALSE, ok |-> FALSE]

\* An operation on the keyspace at time t with what it returned: the value
\* of get and get_anomalies, the bool of set and delete, the count of
\* invalidate_pattern; `up` is whether the store answered when it began,
\* `bad` whether get met a text that json.loads rejects.  `prior` is
\* history kept by get: the set call on the same key that was the last
\* operation before it, if there was one.
Op(op, k, value, ok, count, up, bad, ttl, t, prior) ==
    [op |-> op, key |-> k, value |-> value, ok |-> ok, count |-> count,
     up |-> up, bad |-> bad, ttl |-> ttl, time |-> t, prior |-> prior]

NoOp == Op("none", <<"anomalies", ":", "d1">>, Miss, FALSE, 0, TRUE, FALSE,
           NoTtl, 0, NotWritten)

\* CacheService() connected to an empty Redis, the API idle.
WebInit ==
    /\ store = [k \in CacheKeys |-> Absent]
    /\ redis_up = TRUE
    /\ now = 0
    /\ db = 0
    /\ rd = [r \in Readers |-> IdleRequest]
    /\ wr = IdleUpdate
    /\ settled = 0
    /\ finished = 0
    /\ lastOp = NoOp

Init ==
    /\ ProgramInit
    /\ fn = "none"
    /\ arg = NoArg
    /\ ret = NoRet
    /\ WebInit

\* ------------------------------------------------------------------ startup
\* signal_handler: runs between any two steps of the main thread.
signal_handler ==
    /\ pc # "exited"
    /\ UNCHANGED <<callVars, webVars>>
    /\ shutdown_flag' = TRUE
    /\ UNCHANGED <<pc, procVars, brokerVars, dbVars, msg, tx, metricVars,
                   alerts, attempted, failedPersist, late, cur, fatalCause>>

\* A connection loop that tries once more than `range(1, 6)` allows.
ConnectOnceMore ==
    /\ pc = "connect"
    /\ \E ok \in BOOLEAN :
        IF ok
        THEN /\ consumer' = "open"
             /\ engine' = "open"
             /\ attempt' = 1
             /\ pc' = "load"
             /\ UNCHANGED fatalCause
        ELSE /\ UNCHANGED <<consumer, engine>>
             /\ IF attempt < CONNECT_ATTEMPTS + 1
                THEN attempt' = attempt + 1 /\ pc' = "connect"
                     /\ UNCHANGED fatalCause
                ELSE attempt' = attempt /\ pc' = "fatal"
                     /\ fatalCause' = "connect"
    /\ UNCHANGED <<shutdown_flag, model_loaded, bounds_loaded, sys_exit,
                   exit_status, brokerVars, dbVars, msg, tx, metricVars,
                   alerts, attempted, failedPersist, late, cur, callVars,
                   webVars>>

\* One attempt of create_kafka_consumer(); main() builds the engine right
\* after it returns.  The fifth failure raises ConnectionError into main().
Connect ==
    /\ pc = "connect"
    /\ UNCHANGED <<callVars, webVars>>
    /\ \E ok \in BOOLEAN :
        IF ok
        THEN /\ consumer' = "open"
             /\ engine' = "open"
             /\ attempt' = 1
             /\ pc' = "load"
             /\ UNCHANGED fatalCause
        ELSE /\ UNCHANGED <<consumer, engine>>
             /\ IF attempt < CONNECT_ATTEMPTS
                THEN attempt' = attempt + 1 /\ pc' = "connect"
                     /\ UNCHANGED fatalCause
                ELSE attempt' = attempt /\ pc' = "fatal"
                     /\ fatalCause' = "connect"
    /\ UNCHANGED <<shutdown_flag, model_loaded, bounds_loaded, sys_exit,
                   exit_status, brokerVars, dbVars, msg, tx, metricVars,
                   alerts, attempted, failedPersist, late, cur>>

\* A loader that returns as soon as the model itself is loaded, without the
\* test of the two score bounds.
LoadModelLenient ==
    /\ pc = "load"
    /\ \E outcome \in {"ok", "error", "nobounds"} :
        /\ model_loaded' = (model_loaded \/ outcome \in {"ok", "nobounds"})
        /\ bounds_loaded' = (outcome = "ok")
        /\ IF outcome \in {"ok", "nobounds"}
           THEN attempt' = 1 /\ pc' = "dbconnect" /\ UNCHANGED fatalCause
           ELSE IF attempt < LOAD_ATTEMPTS
           THEN attempt' = attempt + 1 /\ pc' = "load" /\ UNCHANGED fatalCause
           ELSE attempt' = attempt /\ pc' = "fatal" /\ fatalCause' = "model"
    /\ UNCHANGED <<shutdown_flag, consumer, engine, sys_exit, exit_status,
                   brokerVars, dbVars, msg, tx, metricVars, alerts, attempted,
                   failedPersist, late, cur, callVars, webVars>>

\* One attempt of load_mlflow_model(): the registry call fails, or the model
\* loads and its run has no score bounds (the attempt fails with the model
\* global already set), or both load.  The fifth failure raises RuntimeError.
LoadModel ==
    /\ pc = "load"
    /\ UNCHANGED <<callVars, webVars>>
    /\ \E outcome \in {"ok", "error", "nobounds"} :
        /\ model_loaded' = (model_loaded \/ outcome \in {"ok", "nobounds"})
        /\ bounds_loaded' = (outcome = "ok")
        /\ IF outcome = "ok"
           THEN attempt' = 1 /\ pc' = "dbconnect" /\ UNCHANGED fatalCause
           ELSE IF attempt < LOAD_ATTEMPTS
           THEN attempt' = attempt + 1 /\ pc' = "load" /\ UNCHANGED fatalCause
           ELSE attempt' = attempt /\ pc' = "fatal" /\ fatalCause' = "model"
    /\ UNCHANGED <<shutdown_flag, consumer, engine, sys_exit, exit_status,
                   brokerVars, dbVars, msg, tx, metricVars, alerts, attempted,
                   failedPersist, late, cur>>

\* `with engine.connect() as connection`: a failure raises into main().
OpenConnection ==
    /\ pc = "dbconnect"
    /\ UNCHANGED <<callVars, webVars>>
    /\ \E ok \in BOOLEAN :
        IF ok THEN pc' = "poll" /\ UNCHANGED fatalCause
        ELSE pc' = "fatal" /\ fatalCause' = "db"
    /\ UNCHANGED <<shutdown_flag, procVars, brokerVars, dbVars, msg, tx,
                   metricVars, alerts, attempted, failedPersist, late, cur>>

\* ------------------------------------------------------------ consumer loop
\* The consumer is built with a group id and the library's default
\* enable_auto_commit: while main() waits in `for message in consumer`, the
\* poll underneath commits the position reached, i.e. every message yielded.
AutoCommit ==
    /\ pc = "poll"
    /\ UNCHANGED <<callVars, webVars>>
    /\ committed # position
    /\ committed' = position
    /\ UNCHANGED <<pc, shutdown_flag, procVars, log, position, dbVars, msg,
                   tx, metricVars, alerts, attempted, failedPersist, late,
                   cur, fatalCause>>

\* `for message in consumer`: the iterator yields the next message of the
\* topic (a producer has published up to MaxMsgs of them) and moves the
\* position past it.
Pull ==
    /\ pc = "poll"
    /\ UNCHANGED <<callVars, webVars>>
    /\ \E name \in Published :
        /\ IF position < Len(log)
           THEN name = log[position + 1] /\ log' = log
           ELSE Len(log) < MaxMsgs /\ log' = Append(log, name)
        /\ msg' = name
    /\ position' = position + 1
    /\ tx' = NoTx
    /\ cur' = NoCur
    /\ pc' = "check"
    /\ UNCHANGED <<shutdown_flag, procVars, committed, dbVars, metricVars,
                   alerts, attempted, failedPersist, late, fatalCause>>

\* A loop that never looks at the flag.
ShutdownIgnored(flag) == FALSE

\* The condition of `if shutdown_flag: break`.
ShutdownRequested(flag) == flag

\* `if shutdown_flag: break` on the message just yielded.
CheckShutdown ==
    /\ pc = "check"
    /\ UNCHANGED <<callVars, webVars>>
    /\ pc' = IF ShutdownRequested(shutdown_flag) THEN "cleanup" ELSE "validate"
    /\ UNCHANGED <<shutdown_flag, procVars, brokerVars, dbVars, msg, tx,
                   metricVars, alerts, attempted, failedPersist, late, cur,
                   fatalCause>>

\* `except SQLAlchemyError`: count the error and roll back; a failing
\* rollback raises out of process_transaction into main().
SqlErrorHandler(rollbackOk) ==
    /\ errors' = errors + 1
    /\ IF rollbackOk
       THEN pending' = {} /\ pc' = "commit" /\ UNCHANGED fatalCause
       ELSE pending' = pending /\ pc' = "fatal" /\ fatalCause' = "rollback"

\* `except Exception`: count the error and try to roll back; a failing
\* rollback is swallowed.
AnyErrorHandler(rollbackOk) ==
    /\ errors' = errors + 1
    /\ pending' = IF rollbackOk THEN {} ELSE pending
    /\ pc' = "commit"
    /\ UNCHANGED fatalCause

\* `except KeyError`: count the error; no rollback.
KeyErrorHandler ==
    /\ errors' = errors + 1
    /\ pc' = "commit"
    /\ UNCHANGED <<pending, fatalCause>>

\* process_transaction is entered: count the message and validate it.  An
\* invalid message is counted as an error and the function returns.
Validate ==
    /\ pc = "validate"
    /\ UNCHANGED <<callVars, webVars>>
    /\ processed' = processed + 1
    /\ attempted' = attempted \cup {position}
    /\ late' = IF shutdown_flag THEN late + 1 ELSE late
    /\ IF validate_transaction(Payload[msg])
       THEN /\ cur' = [cur EXCEPT !.entered = TRUE]
            /\ pc' = "enrich"
            /\ UNCHANGED errors
       ELSE /\ errors' = errors + 1
            /\ cur' = [cur EXCEPT !.entered = TRUE, !.errs = @ + 1]
            /\ pc' = "commit"
    /\ UNCHANGED <<shutdown_flag, procVars, brokerVars, dbVars, msg, tx,
                   anomalies, alerts, failedPersist, fatalCause>>

\* Step 1: the aggregates of the account are read on the loop's connection
\* (`Score` below scores against them).  The query may fail with a storage
\* error; the conversion of a NULL average raises TypeError.
Enrich ==
    /\ pc = "enrich"
    /\ UNCHANGED <<callVars, webVars>>
    /\ \E ok \in BOOLEAN, rollbackOk \in BOOLEAN :
        LET agg == get_account_aggregates(Payload[msg].account_id,
                                          rows \cup pending)
        IN IF ~ok
           THEN /\ cur' = [cur EXCEPT !.errs = @ + 1]
                /\ SqlErrorHandler(rollbackOk)
           ELSE IF agg.raises
           THEN /\ cur' = [cur EXCEPT !.errs = @ + 1]
                /\ AnyErrorHandler(rollbackOk)
           ELSE /\ rollbackOk
                /\ cur' = [cur EXCEPT !.enriched = TRUE]
                /\ pc' = "score"
                /\ UNCHANGED <<errors, pending, fatalCause>>
    /\ UNCHANGED <<shutdown_flag, procVars, brokerVars, rows, msg, tx,
                   processed, anomalies, alerts, attempted, failedPersist,
                   late>>

\* A fallback that flags the transaction it could not score.
FallbackFlagged == [score |-> 0, reason |-> "Scoring Failed"]

\* `score, reason = 0.0, None`: the fallback when score_transaction raised.
FallbackScore == [score |-> 0, reason |-> NoneVal]

\* `transaction['is_anomaly'] = 1 if reason else 0`
IsAnomaly(reason) == IF reason # NoneVal THEN 1 ELSE 0

\* A status that is NEW for every transaction.
StatusAlwaysNew(reason) == "NEW"

\* `transaction['status'] = 'NEW' if reason else None`
StatusFor(reason) == IF reason # NoneVal THEN "NEW" ELSE NoneVal

\* score_transaction inside its try/except (a raise falls back to score 0,
\* no reason), then the detection fields and the anomaly counter.
Score ==
    /\ pc = "score"
    /\ UNCHANGED <<callVars, webVars>>
    /\ \E d \in Decisions :
        LET t == Payload[msg]
            agg == get_account_aggregates(t.account_id, rows \cup pending)
            res == score_transaction(t, agg, model_loaded,
                       IF bounds_loaded THEN Bound(MODEL_MIN_SCORE) ELSE NoBound,
                       IF bounds_loaded THEN Bound(MODEL_MAX_SCORE) ELSE NoBound, d)
            score == IF res.raised THEN FallbackScore.score ELSE res.score
            reason == IF res.raised THEN FallbackScore.reason ELSE res.reason
            flag == IsAnomaly(reason)
        IN /\ tx' = [score |-> score, reason |-> reason, is_anomaly |-> flag,
                     status |-> StatusFor(reason)]
           /\ cur' = [cur EXCEPT !.scored = TRUE, !.fellback = res.raised]
           /\ anomalies' = IF flag = 1 THEN anomalies + 1 ELSE anomalies
           /\ pc' = IF flag = 1 THEN "notify" ELSE "insert"
    /\ UNCHANGED <<shutdown_flag, procVars, brokerVars, dbVars, msg,
                   processed, errors, alerts, attempted, failedPersist, late,
                   fatalCause>>

\* A notifier call with no try/except of its own.
NotifyUncaught == FALSE

\* The `try ... except Exception as notif_error` around send_fraud_alert
\* catches whatever the notifier raises.
NotifyCaught == TRUE

\* send_fraud_alert inside its try/except, before the insert: whatever the
\* notifier does, processing goes on to the insert.
Notify ==
    /\ pc = "notify"
    /\ UNCHANGED <<callVars, webVars>>
    /\ \E o \in NotifyOutcomes(EnabledChannels), rollbackOk \in BOOLEAN :
        LET t == Payload[msg]
            tried == determine_severity(tx.score, t.amount) \in {"HIGH", "CRITICAL"}
            got == IF o.raises THEN {}
                   ELSE Delivered(send_fraud_alert(t, tx.score, EnabledChannels, o))
        IN /\ alerts' = alerts \cup {<<t.transaction_id, c>> : c \in got}
           /\ tried \/ o.raises \/ \A c \in EnabledChannels : o.sent[c]
           /\ IF o.raises /\ ~NotifyCaught
              THEN /\ cur' = [cur EXCEPT !.notified = TRUE, !.errs = @ + 1,
                                         !.notifyFailed = TRUE]
                   /\ AnyErrorHandler(rollbackOk)
              ELSE /\ rollbackOk
                   /\ cur' = [cur EXCEPT !.notified = TRUE,
                                         !.notifyFailed =
                                             o.raises \/ (tried /\ got = {}),
                                         !.renotified =
                                             \E c \in got :
                                                <<t.transaction_id, c>> \in alerts]
                   /\ pc' = "insert"
                   /\ UNCHANGED <<errors, pending, fatalCause>>
    /\ UNCHANGED <<shutdown_flag, procVars, brokerVars, rows, msg, tx,
                   processed, anomalies, attempted, failedPersist, late>>

\* A table created without `ADD PRIMARY KEY (transaction_id)`.
NoPrimaryKey(id, visible) == FALSE

\* The primary key setup_database puts on the table: an insert is rejected
\* when a row with that transaction_id is visible to the connection.
PrimaryKeyViolation(id, visible) == id \in Ids(visible)

\* The insert of step 4: the timestamp is parsed, the frame is cut to the
\* table's columns (is_fraud among them), and to_sql appends the row in the
\* connection's open transaction.  The primary key rejects a second row with
\* the same transaction_id; the storage may fail for its own reasons.
Insert ==
    /\ pc = "insert"
    /\ UNCHANGED <<callVars, webVars>>
    /\ \E dbOk \in BOOLEAN, rollbackOk \in BOOLEAN :
        LET t == Payload[msg]
            row == Row(t, tx.score, tx.reason, tx.is_anomaly, tx.status)
        IN IF t.timestamp # GoodTs
           THEN /\ dbOk
                /\ cur' = [cur EXCEPT !.errs = @ + 1]
                /\ AnyErrorHandler(rollbackOk)
                /\ UNCHANGED failedPersist
           ELSE IF t.is_fraud = MISSING
           THEN /\ dbOk /\ rollbackOk
                /\ cur' = [cur EXCEPT !.errs = @ + 1]
                /\ KeyErrorHandler
                /\ UNCHANGED failedPersist
           ELSE IF ~dbOk \/ PrimaryKeyViolation(t.transaction_id, rows \cup pending)
           THEN /\ cur' = [cur EXCEPT !.errs = @ + 1, !.insertTried = @ + 1,
                                      !.insertFailed = TRUE]
                /\ failedPersist' =
                       IF t.transaction_id \in Ids(rows) THEN failedPersist
                       ELSE failedPersist \cup {position}
                /\ SqlErrorHandler(rollbackOk)
           ELSE /\ rollbackOk
                /\ pending' = pending \cup {row}
                /\ cur' = [cur EXCEPT !.insertTried = @ + 1, !.inserted = TRUE]
                /\ pc' = "commit"
                /\ UNCHANGED <<errors, failedPersist, fatalCause>>
    /\ UNCHANGED <<shutdown_flag, procVars, brokerVars, rows, msg, tx,
                   processed, anomalies, alerts, attempted, late>>

\* A loop that goes back to polling without committing what it wrote.
CommitSkipped ==
    /\ pc = "commit"
    /\ cur' = [cur EXCEPT !.committed = TRUE]
    /\ pc' = "poll"
    /\ UNCHANGED <<shutdown_flag, procVars, brokerVars, dbVars, msg, tx,
                   metricVars, alerts, attempted, failedPersist, late,
                   fatalCause, callVars, webVars>>

\* `connection.commit()` after process_transaction returned; a failure raises
\* into main().
Commit ==
    /\ pc = "commit"
    /\ UNCHANGED <<callVars, webVars>>
    /\ \E ok \in BOOLEAN :
        IF ok
        THEN /\ rows' = rows \cup pending
             /\ pending' = {}
             /\ cur' = [cur EXCEPT !.committed = TRUE]
             /\ pc' = "poll"
             /\ UNCHANGED fatalCause
        ELSE /\ UNCHANGED <<rows, pending, cur>>
             /\ pc' = "fatal"
             /\ fatalCause' = "commit"
    /\ UNCHANGED <<shutdown_flag, procVars, brokerVars, msg, tx, metricVars,
                   alerts, attempted, failedPersist, late>>

\* ----------------------------------------------------------------- shutdown
\* `except Exception: ... sys.exit(1)`: SystemExit(1) is raised inside the
\* try statement, so the finally clause runs next.  Leaving the `with` block
\* closed the connection and dropped its open transaction.
Fatal ==
    /\ pc = "fatal"
    /\ UNCHANGED <<callVars, webVars>>
    /\ sys_exit' = 1
    /\ pending' = {}
    /\ pc' = "cleanup"
    /\ UNCHANGED <<shutdown_flag, attempt, consumer, engine, model_loaded,
                   bounds_loaded, exit_status, brokerVars, rows, msg, tx,
                   metricVars, alerts, attempted, failedPersist, late, cur,
                   fatalCause>>

\* The exit status main()'s finally clause leaves: its own sys.exit(0) is
\* raised last and replaces a SystemExit in flight.
FinalExitStatus(inFlight) == 0

\* The finally clause: close the consumer (which commits the position
\* reached), dispose the engine, sys.exit(0).
Cleanup ==
    /\ pc = "cleanup"
    /\ UNCHANGED <<callVars, webVars>>
    /\ consumer' = IF consumer = "open" THEN "closed" ELSE consumer
    /\ committed' = IF consumer = "open" THEN position ELSE committed
    /\ engine' = IF engine = "open" THEN "disposed" ELSE engine
    /\ pending' = {}
    /\ exit_status' = FinalExitStatus(sys_exit)
    /\ sys_exit' = 0
    /\ pc' = "exited"
    /\ UNCHANGED <<shutdown_flag, attempt, model_loaded, bounds_loaded, log,
                   position, rows, msg, tx, metricVars, alerts, attempted,
                   failedPersist, late, cur, fatalCause>>

Next ==
    \/ signal_handler
    \/ Connect
    \/ LoadModel
    \/ OpenConnection
    \/ AutoCommit
    \/ Pull
    \/ CheckShutdown
    \/ Validate
    \/ Enrich
    \/ Score
    \/ Notify
    \/ Insert
    \/ Commit
    \/ Fatal
    \/ Cleanup

Spec == Init /\ [][Next]_vars

\* The main thread runs on: every step of main() that does not wait for the
\* broker is eventually taken.  The arrival of a message (Pull) and of a
\* signal are left to the environment.
MainThreadStep ==
    \/ Connect \/ LoadModel \/ OpenConnection
    \/ AutoCommit \/ CheckShutdown
    \/ Validate \/ Enrich \/ Score \/ Notify \/ Insert \/ Commit
    \/ Fatal \/ Cleanup

LiveSpec == Spec /\ WF_vars(MainThreadStep)

\* ------------------------------------------------- functions called directly
\* score_transaction and determine_severity are pure: each is also run on
\* its own, as the unit tests call it, over the arguments below.

\* Amounts: small, on and past the deviation boundary for an average of
\* 150 (900, 1500), on and past the high-value threshold, and NaN.
CallAmounts == {Num(50), Num(900), Num(1500), Num(5000), Num(9500), NaN}

CallTransactions ==
    {Msg("TX", "A1", a, c, l, GoodTs, "0") :
        a \in CallAmounts, c \in {"Groceries", SUSPICIOUS_MERCHANT},
        l \in {STANDARD_LOCATION, "Turku"}}

\* Aggregates as get_account_aggregates returns them: no history, ten rows
\* averaging 150, five and six rows averaging 150, ten rows averaging 0.
CallAggregates ==
    {[raises |-> FALSE, account_tx_count |-> 0, avg_num |-> 0, avg_den |-> 1],
     [raises |-> FALSE, account_tx_count |-> 10, avg_num |-> 1500, avg_den |-> 10],
     [raises |-> FALSE, account_tx_count |-> 5, avg_num |-> 750, avg_den |-> 5],
     [raises |-> FALSE, account_tx_count |-> 6, avg_num |-> 900, avg_den |-> 6],
     [raises |-> FALSE, account_tx_count |-> 10, avg_num |-> 0, avg_den |-> 1]}

\* Decision scores inside the training range [-50, 50], on its ends, on
\* both sides of scaled score 70 (-20 -> 70, -19 -> 69), and outside it.
CallRawScores == {-60, -50, -20, -19, 40, 50, 60}

CallDecisions == {[raises |-> TRUE, raw |-> 0]}
                 \cup {[raises |-> FALSE, raw |-> r] : r \in CallRawScores}

ScoreArgs ==
    [t : CallTransactions, agg : CallAggregates, model : BOOLEAN,
     minS : {NoBound, Bound(MODEL_MIN_SCORE)},
     maxS : {NoBound, Bound(MODEL_MAX_SCORE)}, decision : CallDecisions]

\* Scores around every severity threshold and outside [0, 100].
CallScores == {-10, 0, 59, 60, 79, 80, 89, 90, 100, 110}

SeverityArgs == [score : CallScores, amount : CallAmounts \cup {Num(4999)}]

\* Alerts of every severity, every set of enabled channels, and for each
\* enabled channel the attempt on which its transport first succeeds.
\* `rejected` are the channels whose endpoint refuses the payload itself
\* (raise_for_status on a 4xx answer): a failure that no later attempt can
\* turn into a success.
AlertArgs ==
    UNION {[t : {Msg("TX", "A1", a, "Groceries", STANDARD_LOCATION, GoodTs, "0") :
                    a \in {Num(50), Num(5000)}},
            score : {50, 60, 85, 95},
            enabled : {e[1]},
            rejected : {e[2]},
            firstOk : {f \in [e[1] -> 1..(SEND_ATTEMPTS + 1)] :
                          \A c \in e[2] : f[c] = SEND_ATTEMPTS + 1}] :
           e \in {x \in (SUBSET Channels) \X (SUBSET Channels) :
                     x[2] \subseteq x[1]}}

\* The permutations of 1..n.
Perms(n) == {f \in [1..n -> 1..n] : \A i, j \in 1..n : f[i] = f[j] => i = j}

\* Keyword arguments of a cache_key call: some of the names, each with a
\* value, in any order.
ParamLists ==
    UNION {{[i \in 1..Cardinality(ns) |-> <<names[i], vals[names[i]]>>] :
               names \in {f \in [1..Cardinality(ns) -> ns] :
                             \A i, j \in 1..Cardinality(ns) :
                                 f[i] = f[j] => i = j},
               vals \in [ns -> {"1", "2"}]} :
           ns \in SUBSET {"limit", "offset", "status"}}

\* Two cache_key calls: the same endpoint and the same keyword arguments,
\* the second time written in the order `order`.
KeyArgs ==
    UNION {[endpoint : {"anomalies", "stats"}, params : {ps},
            order : Perms(Len(ps))] : ps \in ParamLists}

Reordered(params, order) == [i \in 1..Len(params) |-> params[order[i]]]

CallInit ==
    /\ ProgramInit
    /\ ret = NoRet
    /\ WebInit
    /\ \/ fn = "score_transaction" /\ arg \in ScoreArgs
       \/ fn = "determine_severity" /\ arg \in SeverityArgs
       \/ fn = "send_fraud_alert" /\ arg \in AlertArgs
       \/ fn = "cache_key" /\ arg \in KeyArgs

\* A scorer that takes the model from the global LOADED_MODEL.
ScoreCallFromGlobals(a) ==
    score_transaction(a.t, a.agg, model_loaded, a.minS, a.maxS, a.decision)

\* score_transaction called with the arguments a.
ScoreCall(a) ==
    score_transaction(a.t, a.agg, a.model, a.minS, a.maxS, a.decision)

\* What a score_transaction call gave back.
Outcome(r) == [raised |-> r.raised, error |-> r.error, score |-> r.score,
               reason |-> r.reason]

\* score, reason = score_transaction(...), or the exception it raised.
CallScore ==
    /\ fn = "score_transaction"
    /\ ~ret.done
    /\ LET r == ScoreCall(arg)
       IN ret' = [done |-> TRUE, raised |-> r.raised, error |-> r.error,
                  score |-> r.score, reason |-> r.reason,
                  twice |-> FALSE, again |-> NoRet]
    /\ UNCHANGED <<fn, arg, progVars, webVars>>

\* Between two calls load_mlflow_model sets the globals LOADED_MODEL,
\* MODEL_MIN_SCORE and MODEL_MAX_SCORE.
GlobalsLoaded ==
    /\ fn = "score_transaction"
    /\ ret.done /\ ~ret.twice
    /\ ~model_loaded
    /\ model_loaded' = TRUE
    /\ bounds_loaded' = TRUE
    /\ UNCHANGED <<pc, shutdown_flag, attempt, consumer, engine, sys_exit,
                   exit_status, brokerVars, dbVars, msg, tx, metricVars,
                   alerts, attempted, failedPersist, late, cur, fatalCause,
                   callVars, webVars>>

\* The same call made a second time.
CallScoreAgain ==
    /\ fn = "score_transaction"
    /\ ret.done /\ ~ret.twice
    /\ ret' = [ret EXCEPT !.twice = TRUE, !.again = Outcome(ScoreCall(arg))]
    /\ UNCHANGED <<fn, arg, progVars, webVars>>

\* cache_key(endpoint, **params), called twice.
CallKey ==
    /\ fn = "cache_key"
    /\ ~ret.done
    /\ ret' = [done |-> TRUE,
               first |-> cache_key(arg.endpoint, arg.params),
               second |-> cache_key(arg.endpoint,
                                    Reordered(arg.params, arg.order))]
    /\ UNCHANGED <<fn, arg, progVars, webVars>>

\* severity = determine_severity(anomaly_score, amount)
CallSeverity ==
    /\ fn = "determine_severity"
    /\ ~ret.done
    /\ ret' = [done |-> TRUE,
               severity |-> determine_severity(arg.score, arg.amount)]
    /\ UNCHANGED <<fn, arg, progVars, webVars>>

\* results = send_fraud_alert(transaction, anomaly_score, reason)
CallAlert ==
    /\ fn = "send_fraud_alert"
    /\ ~ret.done
    /\ LET r == FraudAlertCall(arg.t, arg.score, arg.enabled, arg.firstOk)
       IN ret' = [done |-> TRUE, raised |-> r.raised, results |-> r.results,
                  attempts |-> r.attempts]
    /\ UNCHANGED <<fn, arg, progVars, webVars>>

CallNext ==
    \/ CallScore \/ GlobalsLoaded \/ CallScoreAgain
    \/ CallSeverity
    \/ CallAlert
    \/ CallKey

CallSpec == CallInit /\ [][CallNext]_vars

\* A finished call of score_transaction / determine_severity.
Scored == fn = "score_transaction" /\ ret.done
Graded == fn = "determine_severity" /\ ret.done
Alerted == fn = "send_fraud_alert" /\ ret.done
Keyed == fn = "cache_key" /\ ret.done

\* ---------------------------------------------------------------- the API
\* The Redis server stops or starts answering.
StoreFlips ==
    /\ redis_up' = ~redis_up
    /\ UNCHANGED <<store, now, apiVars, clientVars, progVars, callVars>>

\* CACHE_TTL_SHORT seconds pass; entries whose expiry is reached are gone.
Tick ==
    /\ now + CACHE_TTL_SHORT <= MaxClock
    /\ now' = now + CACHE_TTL_SHORT
    /\ store' = Expire(store, now')
    /\ UNCHANGED <<redis_up, apiVars, clientVars, progVars, callVars>>

\* get_anomalies, first step: cache.get(key).  A hit is returned at once.
ReadGet(r, k) ==
    /\ rd[r].pc = "idle"
    /\ LET g == get(store, redis_up, redis_up, k)
       IN /\ store' = g.store
          /\ rd' = [rd EXCEPT ![r] =
                IF g.value # Miss
                THEN [pc |-> "done", key |-> k, value |-> g.value,
                      hit |-> TRUE, stale |-> g.value.n < settled,
                      old |-> store[k].at < finished]
                ELSE [pc |-> "missed", key |-> k, value |-> Miss,
                      hit |-> FALSE, stale |-> FALSE, old |-> FALSE]]
    /\ UNCHANGED <<redis_up, now, db, wr, settled, finished, clientVars,
                   progVars, callVars>>

\* get_anomalies after a miss: pd.read_sql_query against the table as it
\* stands; any exception becomes HTTP 500.
ReadQuery(r) ==
    /\ rd[r].pc = "missed"
    /\ \E dbOk \in BOOLEAN :
          rd' = [rd EXCEPT ![r] =
                    IF dbOk THEN [@ EXCEPT !.pc = "queried",
                                           !.value = Listing(db)]
                    ELSE [@ EXCEPT !.pc = "done", !.value = Http500]]
    /\ UNCHANGED <<cacheVars, db, wr, settled, finished, clientVars,
                   progVars, callVars>>

\* get_anomalies: cache.set(key, result, ttl=CACHE_TTL_ANOMALIES), then the
\* result is returned.
ReadSet(r) ==
    /\ rd[r].pc = "queried"
    /\ store' = set(store, redis_up, rd[r].key, rd[r].value,
                    Ttl(CACHE_TTL_ANOMALIES), now, db).store
    /\ rd' = [rd EXCEPT ![r].pc = "done"]
    /\ UNCHANGED <<redis_up, now, db, wr, settled, finished, clientVars,
                   progVars, callVars>>

\* The response is sent; the slot takes the next request.
ReadReturn(r) ==
    /\ rd[r].pc = "done"
    /\ rd' = [rd EXCEPT ![r] = IdleRequest]
    /\ UNCHANGED <<cacheVars, db, wr, settled, finished, clientVars,
                   progVars, callVars>>

\* update_anomaly_status: the UPDATE and db.commit() for an existing
\* transaction id.
UpdateCommit ==
    /\ wr.pc = "idle"
    /\ db < MaxWrites
    /\ db' = db + 1
    /\ wr' = [pc |-> "committed", ver |-> db + 1]
    /\ UNCHANGED <<cacheVars, rd, settled, finished, clientVars, progVars,
                   callVars>>

\* update_anomaly_status after the commit: invalidate_anomalies_cache(),
\* then the response.
UpdateInvalidate ==
    /\ wr.pc = "committed"
    /\ store' = invalidate_anomalies_cache(store, redis_up).store
    /\ wr' = IdleUpdate
    /\ settled' = wr.ver
    /\ finished' = IF wr.ver > finished THEN wr.ver ELSE finished
    /\ UNCHANGED <<redis_up, now, db, rd, clientVars, progVars, callVars>>

\* The pipeline's process_transaction and commit for one message: a row is
\* inserted and committed.  detection_service.py makes no cache call.
PipelineInsert ==
    /\ db < MaxWrites
    /\ db' = db + 1
    /\ finished' = db + 1
    /\ UNCHANGED <<cacheVars, rd, wr, settled, clientVars, progVars,
                   callVars>>

\* The API is observed within one CACHE_TTL_ANOMALIES window of its
\* entries: no entry expires meanwhile.
ApiInit ==
    /\ ProgramInit
    /\ fn = "none"
    /\ arg = NoArg
    /\ ret = NoRet
    /\ WebInit

ApiNext ==
    \/ \E r \in Readers :
          \/ \E k \in AnomalyKeys : ReadGet(r, k)
          \/ ReadQuery(r)
          \/ ReadSet(r)
          \/ ReadReturn(r)
    \/ UpdateCommit
    \/ UpdateInvalidate
    \/ PipelineInsert
    \/ StoreFlips

ApiSpec == ApiInit /\ [][ApiNext]_vars

\* A request that was answered from the cache.
ServedFromCache(r) == rd[r].pc = "done" /\ rd[r].hit

\* --------------------------------------------------------- the cache alone
\* Keys, values and ttl arguments a client of the cache passes.
ClientKeys == {<<"anomalies", ":", "d1">>, <<"stats", ":", "d1">>}
ClientValues == {Listing(0), PyTuple(0), PyObject}
ClientTtls == {NoTtl, Ttl(0), Ttl(CACHE_TTL_SHORT)}

\* get_anomalies as one call, for a table with n committed writes whose
\* query succeeds or not: the value returned and the store afterwards.
get_anomalies(st, up, k, n, dbOk, t) ==
    LET g == get(st, up, up, k)
    IN IF g.value # Miss THEN [value |-> g.value, store |-> g.store]
       ELSE IF ~dbOk THEN [value |-> Http500, store |-> g.store]
       ELSE [value |-> Listing(n),
             store |-> set(g.store, up, k, Listing(n),
                           Ttl(CACHE_TTL_ANOMALIES), t, n).store]

\* The stored text of k is one json.loads rejects.
Undecodable(k) == store[k].present /\ json_loads(store[k].text).raises

\* cache.set(k, v, ttl)
ClientSet(k, v, ttl) ==
    /\ LET w == set(store, redis_up, k, v, ttl, now, db)
       IN /\ store' = w.store
          /\ lastOp' = Op("set", k, v, w.ok, 0, redis_up, FALSE, ttl, now,
                          NotWritten)
    /\ UNCHANGED <<redis_up, now, apiVars, progVars, callVars>>

\* cache.get(k).  When the value does not deserialise, the store may stop
\* answering between the GET and the DEL; `ok` records that it did not.
ClientGet(k) ==
    /\ \E delUp \in IF redis_up /\ Undecodable(k) THEN BOOLEAN ELSE {redis_up} :
          LET g == get(store, redis_up, delUp, k)
          IN /\ store' = g.store
             /\ redis_up' = delUp
             /\ lastOp' = Op("get", k, g.value, delUp, 0, redis_up,
                             redis_up /\ Undecodable(k), NoTtl, now,
                             IF lastOp.op = "set" /\ lastOp.key = k
                             THEN [called |-> TRUE, v |-> lastOp.value,
                                   ttl |-> lastOp.ttl, time |-> lastOp.time,
                                   up |-> lastOp.up, ok |-> lastOp.ok]
                             ELSE NotWritten)
    /\ UNCHANGED <<now, apiVars, progVars, callVars>>

\* cache.delete(k)
ClientDelete(k) ==
    /\ LET d == delete(store, redis_up, k)
       IN /\ store' = d.store
          /\ lastOp' = Op("delete", k, Miss, d.ok, 0, redis_up, FALSE, NoTtl,
                          now, NotWritten)
    /\ UNCHANGED <<redis_up, now, apiVars, progVars, callVars>>

\* invalidate_anomalies_cache()
ClientInvalidate ==
    /\ LET i == invalidate_anomalies_cache(store, redis_up)
       IN /\ store' = i.store
          /\ lastOp' = Op("invalidate_pattern", <<"anomalies", ":", "*">>,
                          Miss, FALSE, i.count, redis_up, FALSE, NoTtl, now,
                          NotWritten)
    /\ UNCHANGED <<redis_up, now, apiVars, progVars, callVars>>

\* One get_anomalies request from entry to response; `ok` records whether
\* the query would succeed.
ReadAnomalies(k) ==
    /\ \E dbOk \in BOOLEAN :
          LET a == get_anomalies(store, redis_up, k, db, dbOk, now)
          IN /\ store' = a.store
             /\ lastOp' = Op("get_anomalies", k, a.value, dbOk, 0, redis_up,
                             redis_up /\ Undecodable(k), NoTtl, now,
                             NotWritten)
    /\ UNCHANGED <<redis_up, now, apiVars, progVars, callVars>>

\* Something other than the wrapper overwrites the text stored under k.
Corrupt(k) ==
    /\ redis_up
    /\ store[k].present
    /\ store[k].text # Garbage
    /\ store' = [store EXCEPT ![k].text = Garbage]
    /\ lastOp' = Op("overwrite", k, Miss, TRUE, 0, redis_up, FALSE, NoTtl,
                    now, NotWritten)
    /\ UNCHANGED <<redis_up, now, apiVars, progVars, callVars>>

CacheInit == ApiInit

CacheNext ==
    \/ \E k \in ClientKeys :
          \/ \E v \in ClientValues, ttl \in ClientTtls : ClientSet(k, v, ttl)
          \/ ClientGet(k)
          \/ ClientDelete(k)
          \/ Corrupt(k)
          \/ ReadAnomalies(k)
    \/ ClientInvalidate
    \/ StoreFlips
    \/ Tick

CacheSpec == CacheInit /\ [][CacheNext]_vars

\* ------------------------------------------------------------------ helpers
\* The message in hand and its transaction id.
InHand == Payload[msg]
InHandId == InHand.transaction_id

\* process_transaction has returned for the message in hand and main()
\* has committed: the loop waits for the next message.
BackAtPoll == pc = "poll" /\ cur.entered

\* The message carries every column the insert needs and a timestamp that
\* parses, so only the storage can make its insert fail.
Insertable(t) == t.timestamp = GoodTs /\ t.is_fraud # MISSING

\* ------------------------------------------------------------------- claims

\* C1 (as claimed): the Notifier is invoked only after the transaction's
\* record was written: once a message's processing is over, every transaction
\* an alert was delivered for has its row in storage.
C1_AlertOnlyForPersisted ==
    pc \in {"poll", "exited"} => \A a \in alerts : a[1] \in Ids(rows)

\* C2 (as claimed): every message whose offset is acknowledged to the broker
\* had process_transaction invoked on it.
C2_AcknowledgedWasAttempted ==
    \A o \in 1..committed : o \in attempted

\* C3 (as claimed): while the loop runs without a fatal error, a message whose
\* insert failed, and whose record is not in storage, is not acknowledged: the
\* committed offset stays before it.
C3_FailedPersistNotAcknowledged ==
    fatalCause = "none" => \A o \in failedPersist : committed < o

\* C4 (as claimed): when the broker connection or the model load failed after
\* all retries, the process ends with a non-zero exit status and no message
\* was processed.
C4_StartupFailureExitsNonZero ==
    (pc = "exited" /\ fatalCause \in {"connect", "model"})
        => (exit_status # 0 /\ processed = 0)

\* C5 (as claimed): no failure met while a message is processed (validation,
\* scoring, insert, rollback, commit) ends the consumer loop: main()'s except
\* clause is never entered with a message in hand.
C5_PerMessageFailureKeepsLoop ==
    ~(pc = "fatal" /\ msg # "none")

\* C6 (as claimed): after an insert that failed with a storage error no row
\* of the message is left in the open transaction, the error counter went up
\* by exactly one, the insert was tried once, and the loop goes on.
C6_InsertFailureContained ==
    cur.insertFailed =>
        /\ InHandId \notin Ids(pending)
        /\ cur.errs = 1
        /\ cur.insertTried = 1
        /\ pc \in {"commit", "poll"}

\* A message the claim calls malformed: one of the six fields is missing or
\* null, or the amount is not a positive number.
Malformed(t) ==
    \/ \E i \in 1..Len(REQUIRED_FIELDS) : FieldAbsent(t, REQUIRED_FIELDS[i])
    \/ ~(t.amount.k = "num" /\ t.amount.v > 0)

\* process_transaction was invoked on the message in hand and has returned.
ProcessingOver ==
    cur.entered /\ pc \in {"commit", "poll", "cleanup", "exited"}

\* C7 (as claimed): a malformed message process_transaction has handled was
\* dropped: one error is counted, there was no aggregate lookup, scoring,
\* notification or insert for it, and no malformed message is in storage.
C7_MalformedDropped ==
    /\ (ProcessingOver /\ Malformed(InHand)) =>
           /\ cur.errs = 1
           /\ ~cur.enriched /\ ~cur.scored /\ ~cur.notified
           /\ cur.insertTried = 0
    /\ \A n \in Published :
           Malformed(Payload[n]) =>
               Payload[n].transaction_id \notin Ids(rows \cup pending)

\* The row a scoring fallback leaves for the message in hand.
FallbackRow == Row(InHand, 0, NoneVal, 0, NoneVal)

AnomalyRow == Row(InHand, tx.score, tx.reason, 1, "NEW")

MidProcessing == cur.entered /\ ~cur.committed

\* C10 (as claimed): the broker connection and the engine are closed only
\* when no message is mid-processing, and process_transaction is never
\* invoked once the signal handler has set the flag.
C10_NoInvocationAfterFlag ==
    /\ (consumer = "closed" \/ engine = "disposed")
           => (fatalCause # "none" \/ ~MidProcessing)
    /\ late = 0

\* C10 (amended): the signal handler only sets the flag, so the loop is left
\* only at the shutdown check on top of an iteration (or by a fatal error)
\* and the connection and engine are never closed with a message
\* mid-processing; process_transaction is invoked on no message whose check
\* found the flag set, hence on at most one message after the flag was set:
\* the one whose check came before the signal.
C10_AtMostOneInvocationAfterFlag ==
    /\ (consumer = "closed" \/ engine = "disposed" \/ pc = "cleanup")
           => (fatalCause # "none" \/ ~MidProcessing)
    /\ late <= 1
    /\ (late = 1 /\ pc = "check") => shutdown_flag

\* C10 witness: a message was processed after the flag was set, committed,
\* and the process then left the loop on the flag and closed its resources.
C10_Witness ==
    /\ pc = "exited" /\ late = 1 /\ fatalCause = "none"
    /\ consumer = "closed" /\ engine = "disposed"

\* The committed rows of the account of the message in hand.
CommittedOfAccount == {r \in rows : r.account_id = InHand.account_id}

\* C11: the aggregate a message is scored against is the count, and the
\* average amount, of exactly the committed rows of its account: while the
\* message is scored the connection holds no uncommitted write, so a row is
\* counted if and only if it was committed.
C11_AggregatesOverCommitted ==
    pc = "score" =>
        LET agg == get_account_aggregates(InHand.account_id, rows \cup pending)
            withAmount == {r \in CommittedOfAccount : r.amount.k = "num"}
        IN /\ pending = {}
           /\ ~agg.raises
           /\ agg.account_tx_count = Cardinality(CommittedOfAccount)
           /\ agg.avg_num * Cardinality(withAmount)
                  = SumAmount(withAmount) * agg.avg_den
           /\ CommittedOfAccount = {} => agg.avg_num = 0

\* C11 witness: the second message of an account is scored against the
\* committed row of the first.
C11_Witness ==
    /\ pc = "score"
    /\ msg = "high"
    /\ Ids(CommittedOfAccount) = {"T1"}
    /\ get_account_aggregates("A1", rows \cup pending).avg_num = 50

ScoredHighValue ==
    /\ Scored /\ ~ret.raised
    /\ arg.t.amount.k = "num" /\ arg.t.amount.v >= 5000

ScoredCombo ==
    /\ Scored /\ ~ret.raised
    /\ arg.t.merchant_category = "Gambling" /\ arg.t.location # "Helsinki"

\* C14 (as claimed): for Gambling outside Helsinki the reason names the
\* suspicious combination unless the ML rule took priority.
C14_ComboUnlessML ==
    ScoredCombo =>
        ret.reason \in {"Suspicious Combo", "High Value & Suspicious Combo",
                        "ML Anomaly"}

\* C14 (amended): for Gambling outside Helsinki the reason is never None; it
\* is "ML Anomaly" when the ML rule fired, else "High Deviation from Avg"
\* when the deviation rule fired, and names the combination otherwise.
C14_ComboUnlessMLOrDeviation ==
    ScoredCombo =>
        ret.reason =
            IF ret.score >= 70 THEN "ML Anomaly"
            ELSE IF HighDeviationRule(arg.t, arg.agg)
                 THEN "High Deviation from Avg"
            ELSE IF arg.t.amount.k = "num" /\ arg.t.amount.v >= 5000
                 THEN "High Value & Suspicious Combo"
            ELSE "Suspicious Combo"

\* C14 witness: the combination alone is reported.
C14_Witness == ScoredCombo /\ ret.reason = "Suspicious Combo"

\* The scenario: 9500 at a gambling merchant in Turku, against ten
\* transactions averaging 150.
ScoredScenario ==
    /\ Scored /\ ~ret.raised
    /\ arg.t.amount = Num(9500)
    /\ arg.t.merchant_category = "Gambling" /\ arg.t.location = "Turku"
    /\ arg.agg.account_tx_count = 10
    /\ arg.agg.avg_num = 150 * arg.agg.avg_den

C17_MissingConfigurationRaises ==
    (Scored /\ (~arg.model \/ ~arg.minS.some \/ ~arg.maxS.some)) =>
        (ret.raised /\ ret.error = "RuntimeError")

\* C17 witness: a model and a maximum but no minimum, with a model that
\* would itself have raised.
C17_Witness ==
    /\ Scored
    /\ arg.model /\ ~arg.minS.some /\ arg.maxS.some
    /\ arg.decision.raises
    /\ ret.error = "RuntimeError"

\* C18: with an account average of 0 the deviation is 0, the call raises
\* only for a missing configuration or a raising model, and the reason is
\* never the deviation's, whatever the amount and the history count.
C18_ZeroAverageZeroDeviation ==
    (Scored /\ arg.agg.avg_num = 0) =>
        LET d == Deviation(arg.t.amount, arg.agg)
        IN /\ ~d.nan /\ d.num = 0
           /\ ret.raised =>
                  (~arg.model \/ ~arg.minS.some \/ ~arg.maxS.some
                   \/ arg.decision.raises)
           /\ ret.reason # "High Deviation from Avg"

\* C18 witness: 9500 against ten transactions averaging 0 is reported as
\* high value, not as a deviation.
C18_Witness ==
    /\ Scored /\ ~ret.raised
    /\ arg.agg.avg_num = 0 /\ arg.agg.account_tx_count = 10
    /\ arg.t.amount = Num(9500)
    /\ ret.reason = "High Value"

\* C19: in every row the pipeline writes, committed or not yet, the anomaly
\* flag is 1 exactly when there is an alert reason, the status is NEW
\* exactly when there is an alert reason and null otherwise, and the status
\* is never INVESTIGATED, FRAUD or DISMISSED.
C19_FlagAndStatusFollowReason ==
    \A r \in rows \cup pending :
        /\ r.is_anomaly \in {0, 1}
        /\ (r.is_anomaly = 1) <=> (r.alert_reason # NoneVal)
        /\ (r.status = "NEW") <=> (r.alert_reason # NoneVal)
        /\ r.alert_reason = NoneVal => r.status = NoneVal
        /\ r.status \notin {"INVESTIGATED", "FRAUD", "DISMISSED"}

\* C19 witness: a flagged row and an unflagged row are both committed.
C19_Witness ==
    \E r1, r2 \in rows :
        /\ r1.is_anomaly = 1 /\ r1.status = "NEW"
        /\ r2.is_anomaly = 0 /\ r2.status = NoneVal

\* C20: determine_severity is CRITICAL from a score of 0.9, else HIGH from
\* a score of 0.8 or an amount of 5000.00, else WARNING from a score of 0.6,
\* else INFO.
C20_SeverityLadder ==
    Graded =>
        ret.severity =
            IF arg.score >= 90 THEN "CRITICAL"
            ELSE IF arg.score >= 80
                    \/ (arg.amount.k = "num" /\ arg.amount.v >= 5000)
                 THEN "HIGH"
            ELSE IF arg.score >= 60 THEN "WARNING"
            ELSE "INFO"

\* C20 witness: a low score with an amount of exactly 5000.00 is HIGH.
C20_Witness ==
    /\ Graded
    /\ arg.score = 0 /\ arg.amount = Num(5000)
    /\ ret.severity = "HIGH"

\* The severity of the alert passed to send_fraud_alert, and the enabled
\* channels whose transport never succeeds within the ceiling.
SeverityOfAlert == determine_severity(arg.score, arg.t.amount)
AlwaysFailing == {c \in arg.enabled : arg.firstOk[c] > SEND_ATTEMPTS}

\* C21: send_fraud_alert makes no delivery attempt on any channel and
\* returns an empty result map when the severity is INFO or WARNING; when
\* the severity is HIGH or CRITICAL it attempts delivery on every enabled
\* channel.
C21_OnlyHighAndCriticalDelivered ==
    Alerted =>
        /\ SeverityOfAlert \in {"INFO", "WARNING"} =>
              /\ DOMAIN ret.results = {}
              /\ \A c \in arg.enabled : ret.attempts[c] = 0
        /\ SeverityOfAlert \in {"HIGH", "CRITICAL"} =>
              \A c \in arg.enabled : ret.attempts[c] >= 1

\* C21 witness: a score of 0.95 with amount 50 has been sent to two enabled
\* channels.
C21_Witness ==
    /\ Alerted
    /\ arg.score = 95 /\ arg.t.amount = Num(50)
    /\ arg.enabled = {"slack", "email"}
    /\ \A c \in arg.enabled : ret.attempts[c] >= 1

\* C22: in one send_fraud_alert invocation, if one enabled channel's send
\* fails on every attempt, every other enabled channel is still attempted
\* and its outcome recorded in the same result map (a successful send as
\* true), the failing channel is recorded as false, and the call returns
\* the map without raising.
C22_FailingChannelIsolated ==
    (Alerted /\ SeverityOfAlert \in {"HIGH", "CRITICAL"}) =>
        /\ ~ret.raised
        /\ DOMAIN ret.results = arg.enabled
        /\ \A c \in AlwaysFailing : ret.results[c] = FALSE
        /\ \A c \in arg.enabled :
              /\ ret.attempts[c] >= 1
              /\ arg.firstOk[c] = 1 => ret.results[c] = TRUE

\* C22 witness: slack fails on every attempt, and the channels walked after
\* it are attempted and recorded as successes.
C22_Witness ==
    /\ Alerted
    /\ SeverityOfAlert = "CRITICAL"
    /\ arg.enabled = {"slack", "teams", "webhook"}
    /\ AlwaysFailing = {"slack"}
    /\ ret.results = [c \in arg.enabled |-> c # "slack"]

\* C23: for each enabled channel, email included, a send that fails on
\* every attempt is attempted exactly 3 times before the channel is
\* recorded as failed, and a send that succeeds on attempt k <= 3 is
\* attempted k times and recorded as a success.
C23_ThreeAttemptsEveryChannel ==
    (Alerted /\ SeverityOfAlert \in {"HIGH", "CRITICAL"}) =>
        \A c \in arg.enabled :
            IF arg.firstOk[c] <= 3
            THEN ret.attempts[c] = arg.firstOk[c] /\ ret.results[c] = TRUE
            ELSE ret.attempts[c] = 3 /\ ret.results[c] = FALSE

\* C24: once a status update has committed and its invalidate_pattern call
\* for the anomalies domain has returned, no later cache get for an
\* anomalies-listing key returns a result computed from the pre-update
\* data, under every interleaving with concurrent get_anomalies requests
\* and whether or not the cache answered at invalidation time.
C24_NoPreUpdateDataAfterInvalidation ==
    \A r \in Readers : ServedFromCache(r) => ~rd[r].stale

\* C25: whenever a write to the transactions table is committed (a status
\* update through the API or an insert by the pipeline), all cache entries
\* of the anomalies domain are invalidated: no entry stored before the
\* write is returned after its handler has finished.
C25_EveryWriteInvalidates ==
    \A r \in Readers : ServedFromCache(r) => ~rd[r].old

\* A get that answered and whose key was set, with the store answering, by
\* the operation just before it; the ttl of that set has run out by the
\* time of the get.
SetThenGet ==
    /\ lastOp.op = "get" /\ lastOp.up
    /\ lastOp.prior.called /\ lastOp.prior.up
TtlElapsed ==
    /\ lastOp.prior.ttl.given
    /\ lastOp.time >= lastOp.prior.time + lastOp.prior.ttl.s

\* C26 as stated: with the backing store available, set(k, v, ttl) followed
\* by get(k) with no intervening delete returns v; once the ttl has elapsed
\* get(k) returns a miss; an entry stored without a ttl never expires.
C26_SetThenGetReturnsValue ==
    SetThenGet =>
        lastOp.value = IF TtlElapsed THEN Miss ELSE lastOp.prior.v

\* C26: with the backing store available, a set(k, v, ttl) that returned
\* True followed by get(k) with no intervening delete returns v as json
\* carries it, json.loads(json.dumps(v)), which is v itself for a dict of
\* JSON values; once the ttl has elapsed get(k) returns a miss; an entry
\* stored without a ttl never expires.
C26_SetThenGetReturnsRoundTrip ==
    (SetThenGet /\ lastOp.prior.ok) =>
        /\ lastOp.value =
              IF TtlElapsed THEN Miss
              ELSE json_loads(json_dumps(lastOp.prior.v).text).value
        /\ (~TtlElapsed /\ lastOp.prior.v.py = "dict") =>
              lastOp.value = lastOp.prior.v
        /\ ~lastOp.prior.ttl.given => lastOp.value # Miss

\* C26 witness: a listing set with a ttl is read back, unchanged, before
\* the ttl has elapsed.
C26_Witness ==
    /\ SetThenGet /\ lastOp.prior.ok
    /\ lastOp.prior.ttl = Ttl(CACHE_TTL_SHORT) /\ ~TtlElapsed
    /\ lastOp.prior.v = Listing(0)
    /\ lastOp.value = Listing(0)

\* C27: when the backing store is unreachable, get returns a miss; set,
\* delete and invalidate_pattern change nothing and return False, False
\* and 0; and get_anomalies still returns the result of its query.
C27_UnreachableStoreDegrades ==
    [][~redis_up =>
        /\ \A k \in ClientKeys :
              /\ ClientGet(k) => lastOp'.value = Miss /\ store' = store
              /\ ClientDelete(k) => ~lastOp'.ok /\ store' = store
              /\ \A v \in ClientValues, ttl \in ClientTtls :
                    ClientSet(k, v, ttl) => ~lastOp'.ok /\ store' = store
              /\ ReadAnomalies(k) =>
                    /\ store' = store
                    /\ lastOp'.ok => lastOp'.value = Listing(db)
        /\ ClientInvalidate => lastOp'.count = 0 /\ store' = store]_vars

\* C27 witness: a set made while the store was unreachable returned False
\* and the older entry under its key is still there.
C27_Witness ==
    /\ lastOp.op = "set" /\ ~lastOp.up /\ ~lastOp.ok
    /\ ~redis_up
    /\ store[lastOp.key].present

\* C28 as stated: get on a key whose stored value cannot be deserialised
\* returns a miss and deletes that entry; other entries are unchanged.
C28_UndecodableAlwaysDeleted ==
    [][\A k \in ClientKeys :
          (redis_up /\ Undecodable(k) /\ ClientGet(k)) =>
              /\ lastOp'.value = Miss
              /\ ~store'[k].present
              /\ \A j \in CacheKeys \ {k} : store'[j] = store[j]]_vars

\* C28: get on a key whose stored value cannot be deserialised returns a
\* miss, never the value, and deletes that entry if the store still
\* answers the delete; other entries are unchanged.  If the delete fails
\* the entry stays as it was.
C28_UndecodableDeletedWhenStoreAnswers ==
    [][\A k \in ClientKeys :
          (redis_up /\ Undecodable(k) /\ ClientGet(k)) =>
              /\ lastOp'.value = Miss
              /\ lastOp'.ok => ~store'[k].present
              /\ ~lastOp'.ok => store'[k] = store[k]
              /\ \A j \in CacheKeys \ {k} : store'[j] = store[j]]_vars

\* C28 witness: a get met an undecodable text, returned a miss, the entry
\* is gone and another entry is still stored.
C28_Witness ==
    /\ lastOp.op = "get" /\ lastOp.bad /\ lastOp.ok
    /\ lastOp.value = Miss
    /\ ~store[lastOp.key].present
    /\ \E j \in CacheKeys \ {lastOp.key} : store[j].present

\* C29: cache_key is deterministic and independent of parameter order: two
\* calls with the same endpoint name and the same parameters supplied in
\* different orders return identical keys, and every key returned for
\* endpoint e begins with e followed by ':', so that the pattern e:* matches
\* it.
C29_KeyIgnoresParameterOrder ==
    Keyed =>
        /\ ret.first = ret.second
        /\ ret.first[1] = arg.endpoint /\ ret.first[2] = ":"
        /\ Matches(<<arg.endpoint, ":", "*">>, ret.first)

\* C29 witness: three parameters written in reverse order give the key of
\* the first call.
C29_Witness ==
    /\ Keyed
    /\ arg.endpoint = "anomalies"
    /\ Len(arg.params) = 3
    /\ arg.order = [i \in 1..3 |-> 4 - i]
    /\ ret.second = ret.first

C31_SignalLeadsToCleanup ==
    shutdown_flag ~> (pc = "exited" /\ consumer # "open" /\ engine # "open")

\* C32: consumption and persistence do not wait for notification delivery:
\* while the alert of an anomalous message is being delivered (with its
\* retries and their waits), the insert and commit of that message, or the
\* pull of the next one, can go ahead.
C32_LoopNotBehindDelivery ==
    pc = "notify" => (ENABLED Insert \/ ENABLED Commit \/ ENABLED Pull)

\* C33: every scoring fallback (score_transaction raised and the default
\* score 0 was used) increments one of the exported counters.
C33_FallbackCounted ==
    [][(pc = "score" /\ cur'.fellback)
        => (processed' # processed \/ anomalies' # anomalies
            \/ errors' # errors)]_vars

\* C34: whatever is delivered, and however often, the table holds at most
\* one row per transaction_id, and no pipeline step overwrites or deletes a
\* committed row.
C34_OneRowPerIdNeverRewritten ==
    /\ [](Cardinality(Ids(rows)) = Cardinality(rows))
    /\ [][rows \subseteq rows']_vars

\* The same transaction was delivered twice; the second insert was rejected
\* and the table holds the one row of the first delivery.
C34_Witness ==
    /\ position = 2
    /\ log[1] = log[2]
    /\ cur.insertFailed
    /\ Payload[log[2]].transaction_id \in Ids(rows)
    /\ Cardinality(rows) = 1

\* C35: a channel send that fails permanently (the endpoint rejects the
\* payload) is attempted exactly once and recorded as failed, without
\* retry.
C35_PermanentFailureNotRetried ==
    (Alerted /\ SeverityOfAlert \in {"HIGH", "CRITICAL"}) =>
        \A c \in arg.rejected :
            ret.attempts[c] = 1 /\ ret.results[c] = FALSE

\* C36: the High Deviation rule fires only when the deviation is at least
\* 5.0 and the account has more than 5 transactions: a transaction scored
\* against an aggregate with count <= 5 is never reported as
\* "High Deviation from Avg".
C36_HighDeviationNeedsHistory ==
    (Scored /\ ~ret.raised) =>
        /\ arg.agg.account_tx_count <= 5
               => ret.reason # "High Deviation from Avg"
        /\ ret.reason = "High Deviation from Avg"
               => /\ HighDeviation(arg.t.amount, arg.agg)
                  /\ arg.agg.account_tx_count > 5

\* An amount ten times the average of an account with exactly five rows,
\* scored with no reason at all.
C36_Witness ==
    /\ Scored
    /\ ~ret.raised
    /\ arg.agg.account_tx_count = 5
    /\ HighDeviation(arg.t.amount, arg.agg)
    /\ ret.reason = NoneVal

\* C37: Connect makes at most 5 connection attempts, returns the consumer
\* on the first success without a further attempt, and raises a connection
\* error after the fifth failure and no earlier; it never retries forever.
C37_ConnectBounded ==
    /\ [](/\ pc = "connect" => (attempt \in 1..5 /\ consumer = "none")
          /\ fatalCause = "connect" => (attempt = 5 /\ consumer = "none"))
    /\ [][(pc = "connect" /\ (pc' # pc \/ attempt' # attempt)) =>
            \/ pc' = "load" /\ consumer' = "open"
            \/ /\ pc' = "connect" /\ consumer' = "none"
               /\ attempt < 5 /\ attempt' = attempt + 1
            \/ /\ pc' = "fatal" /\ consumer' = "none"
               /\ attempt = 5 /\ fatalCause' = "connect"]_vars

\* The fifth attempt has failed and the connection error is on its way
\* through main().
C37_Witness ==
    /\ pc = "fatal"
    /\ fatalCause = "connect"
    /\ attempt = 5
    /\ consumer = "none"

\* C38: LoadModel makes at most 5 attempts and then fails; when it returns
\* normally the model and both score bounds are set; an attempt in which the
\* model loaded but a bound is missing counts as failed; and the consumer
\* loop processes no message unless the model and both bounds are set.
C38_LoadModelBoundedAndComplete ==
    /\ [](/\ pc = "load" => attempt \in 1..5
          /\ fatalCause = "model" => attempt = 5
          /\ (pc = "dbconnect" \/ position > 0 \/ processed > 0
                 \/ msg # "none")
                => (model_loaded /\ bounds_loaded))
    /\ [][(pc = "load" /\ (pc' # pc \/ attempt' # attempt)) =>
            \/ pc' = "dbconnect" /\ model_loaded' /\ bounds_loaded'
            \/ /\ pc' = "load" /\ ~bounds_loaded'
               /\ attempt < 5 /\ attempt' = attempt + 1
            \/ /\ pc' = "fatal" /\ ~bounds_loaded'
               /\ attempt = 5 /\ fatalCause' = "model"]_vars

\* The fifth attempt loaded the model but found no score bounds: the loader
\* has raised, and no message was processed.
C38_Witness ==
    /\ pc = "fatal"
    /\ fatalCause = "model"
    /\ attempt = 5
    /\ model_loaded
    /\ ~bounds_loaded
    /\ processed = 0

\* C39: redelivery of a message whose transaction is already persisted
\* produces no second notification: across any sequence of deliveries each
\* channel receives at most one alert per transaction_id.
C39_OneAlertPerTransactionAndChannel ==
    (msg # "none" /\ Payload[msg].transaction_id \in Ids(rows))
        => ~cur.renotified

\* C40: every message that passes validation results in a persisted scored
\* record when storage does not fail, whether or not it carries any field
\* beyond the six required ones (such as is_fraud); and a validated message
\* is never both notified and left unpersisted.
C40_ValidatedAlwaysPersisted ==
    /\ (BackAtPoll /\ validate_transaction(InHand) /\ cur.scored
           /\ ~cur.insertFailed)
          => InHandId \in Ids(rows)
    /\ (BackAtPoll /\ validate_transaction(InHand)
           /\ \E c \in EnabledChannels : <<InHandId, c>> \in alerts)
          => InHandId \in Ids(rows)

====
